---- MODULE Spec2Model ----
(***************************************************************************)
(* Request-scoped file lifecycle of the image-to-video endpoint            *)
(* (image2video_server.py: inference-script backend; fastapi_server.py:    *)
(* shell-encoder backend) and the single-file blob download utility        *)
(* (scripts/download.py).                                                  *)
(*                                                                         *)
(* Strings are sequences of one-character strings; a uuid, a directory     *)
(* name or a fixed suffix is one token that holds neither "." nor "/".     *)
(***************************************************************************)
EXTENDS Integers, Sequences, FiniteSets, TLC

VARIABLES
    variant,         \* which server module is running: "inference" | "ffmpeg"
    pc,              \* per request: position of its generate_video coroutine
    filename,        \* per request: image.filename
    uid,             \* per request: the uuid4 of input_image_path
    out_uid,         \* per request: the uuid4 of output_video_path (ffmpeg only)
    invoked,         \* per request: number of subprocess.run calls made
    exit_status,     \* per request: <<return code>> of its subprocess, <<>> before it returns
    resp,            \* per request: what the handler returned
    fs,              \* paths that exist on disk
    complete,        \* input paths whose payload has been written in full
    loop,            \* the requests whose handler holds the event loop's thread: {} or {r}
    healthPending,   \* GET /health requests received and not yet answered
    healthResps,     \* the responses sent to GET /health so far, in order
    dl               \* the download_from_blob_storage call in progress

vars == <<variant, pc, filename, uid, out_uid, invoked, exit_status, resp,
          fs, complete, loop, healthPending, healthResps, dl>>

serverVars == <<variant, pc, filename, uid, out_uid, invoked, exit_status, resp,
                fs, complete, loop, healthPending, healthResps>>

----------------------------------------------------------------------------
(* Bounds *)

NumRequests == 2

MaxPathLen == 3

MaxHealth == 1

Requests == 1..NumRequests

Chars == {"a", ".", "/"}

\* uuid4() returns a value no other call returns: the k-th call made for
\* request r is given a token of its own
UuidTable == << <<"u1a", "u1b">>, <<"u2a", "u2b">>, <<"u3a", "u3b">>, <<"u4a", "u4b">> >>

uuid4(r, k) == <<UuidTable[r][k]>>

SeqsUpTo(n) == UNION {[1..k -> Chars] : k \in 0..n}

\* uploaded names: without a dot, with one dot, with two dots, with a directory part
FileNames == { <<"a">>, <<"a", ".", "a">>, <<"a", ".", "a", ".", "a">>, <<"a", "/", "a">> }

ExitCodes == {0, 1}

----------------------------------------------------------------------------
(* Python string and os.path functions *)

\* s.find(c), 1-based; 0 when c does not occur
Find(s, c) ==
    IF \E i \in 1..Len(s) : s[i] = c
    THEN CHOOSE i \in 1..Len(s) : s[i] = c /\ \A j \in 1..(i-1) : s[j] # c
    ELSE 0

\* s.rfind(c), 1-based; 0 when c does not occur
RFind(s, c) ==
    IF \E i \in 1..Len(s) : s[i] = c
    THEN CHOOSE i \in 1..Len(s) : s[i] = c /\ \A j \in (i+1)..Len(s) : s[j] # c
    ELSE 0

\* s.split(c)[0]
SplitFirst(s, c) == IF Find(s, c) = 0 THEN s ELSE SubSeq(s, 1, Find(s, c) - 1)

\* os.path.basename
basename(p) == SubSeq(p, RFind(p, "/") + 1, Len(p))

RECURSIVE RStripSlash(_)
RStripSlash(s) ==
    IF Len(s) > 0 /\ s[Len(s)] = "/" THEN RStripSlash(SubSeq(s, 1, Len(s) - 1)) ELSE s

\* os.path.dirname (posixpath)
dirname(p) ==
    LET head == SubSeq(p, 1, RFind(p, "/"))
    IN  IF head # <<>> /\ RStripSlash(head) # <<>> THEN RStripSlash(head) ELSE head

\* os.path.join(a, b) (posixpath)
join(a, b) ==
    IF b # <<>> /\ b[1] = "/" THEN b
    ELSE IF a = <<>> \/ a[Len(a)] = "/" THEN a \o b
    ELSE a \o <<"/">> \o b

\* "/" in s
HasSlash(s) == \E i \in 1..Len(s) : s[i] = "/"

----------------------------------------------------------------------------
(* generate_video: paths *)

TEMP_DIR == <<"temp_files">>

\* mutant: the path is built from the uploaded name alone
input_image_path_NoUuid(u, fn) == <<"temp_files", "/">> \o fn

\* image_prefix = f"{uuid.uuid4()}_{image.filename}"
image_prefix(u, fn) == u \o <<"_">> \o fn

\* input_image_path = os.path.join(TEMP_DIR, image_prefix)
input_image_path(u, fn) == join(TEMP_DIR, image_prefix(u, fn))

\* name_prefix = os.path.basename(image_prefix).split('.')[0]
name_prefix(u, fn) == SplitFirst(basename(image_prefix(u, fn)), ".")

\* output_video_path of the running variant
\*   inference: f"animations/{name_prefix}--video.mp4"
\*   ffmpeg:    os.path.join(TEMP_DIR, f"{uuid.uuid4()}.mp4")
output_video_path(v, u, ou, fn) ==
    IF v = "inference"
    THEN <<"animations", "/">> \o name_prefix(u, fn) \o <<"--video", ".", "mp4">>
    ELSE join(TEMP_DIR, ou \o <<".", "mp4">>)

\* helper.prefix of the inference script: the name up to its last "."
prefix(name) == IF RFind(name, ".") = 0 THEN name ELSE SubSeq(name, 1, RFind(name, ".") - 1)

\* where the external process writes its result, when it writes one
\*   inference.py: <output_dir>/<prefix(basename(source))>--<prefix(basename(driving))>.mp4
\*   ffmpeg:       the output path given on its command line
ProcessOutputPath(v, u, ou, fn) ==
    IF v = "inference"
    THEN <<"animations", "/">> \o prefix(basename(input_image_path(u, fn)))
             \o <<"--video", ".", "mp4">>
    ELSE output_video_path(v, u, ou, fn)

----------------------------------------------------------------------------
(* generate_video: responses and cleanup *)

NoResponse == [kind |-> "none", body |-> <<>>]

\* FileResponse(path=output_video_path, media_type="video/mp4", filename="generated_video.mp4")
FileResponse(path) == [kind |-> "video", body |-> path]

\* {"error": str(e)}; e is named by its exception class and the call that raised it
ErrorResponse(e) == [kind |-> "error", body |-> <<e>>]

\* mutant: subprocess.run without check=True
SubprocessRaises_NoCheck(code) == FALSE

\* mutant: the finally block removes nothing
Cleanup_Skipped(files, p, rmOk) == files

\* mutant: the finally block empties the working directory
Cleanup_All(files, p, rmOk) == IF rmOk THEN {} ELSE files

\* mutant: the handler goes on to the subprocess whether or not the upload was saved
AfterSave_Always(saved) == "processing"

\* subprocess.run(..., check=True) raises CalledProcessError on a non-zero return code
SubprocessRaises(code) == code # 0

\* the finally block: os.remove raises when the file exists and cannot be removed
CleanupRaises(files, p, rmOk) == p \in files /\ ~rmOk

\* the finally block: if os.path.exists(input_image_path): os.remove(input_image_path)
Cleanup(files, p, rmOk) == IF p \in files /\ rmOk THEN files \ {p} ELSE files

\* open(input_image_path, "wb") creates the file, empty
OpenForWrite(files, p) == files \cup {p}

\* the state the handler leaves the request in: the try/except result, unless
\* the finally block raised
Terminal(result, raised) ==
    IF raised THEN "escaped"
    ELSE IF result.kind = "video" THEN "responded" ELSE "error-reported"

\* where the coroutine goes after the with-block that saves the upload
AfterSave(saved) == IF saved THEN "processing" ELSE "failed"

path(r) == input_image_path(uid[r], filename[r])

----------------------------------------------------------------------------
(* State machine of the servers *)

ServerInit ==
    /\ variant \in {"inference", "ffmpeg"}
    /\ pc = [r \in Requests |-> "idle"]
    /\ filename = [r \in Requests |-> <<>>]
    /\ uid = [r \in Requests |-> <<>>]
    /\ out_uid = [r \in Requests |-> <<>>]
    /\ invoked = [r \in Requests |-> 0]
    /\ exit_status = [r \in Requests |-> <<>>]
    /\ resp = [r \in Requests |-> NoResponse]
    /\ fs = {}
    /\ complete = {}
    /\ loop = {}
    /\ healthPending = 0
    /\ healthResps = <<>>

\* mutant: lines 94-96 enabled, the finally block goes on to
\*   if os.path.exists(output_video_path): os.remove(output_video_path)
Finish_WithVideo(r, p, result, files, rmOk) ==
    LET raised == CleanupRaises(files, p, rmOk)
        out == output_video_path(variant, uid[r], out_uid[r], filename[r])
    IN  /\ pc' = [pc EXCEPT ![r] = Terminal(result, raised)]
        /\ resp' = [resp EXCEPT ![r] = IF raised THEN NoResponse ELSE result]
        /\ fs' = IF raised THEN Cleanup(files, p, rmOk) ELSE Cleanup(files, p, rmOk) \ {out}

\* The handler ends: except (if any) has built `result`, finally runs on `files`.
Finish(r, p, result, files, rmOk) ==
    LET raised == CleanupRaises(files, p, rmOk)
    IN  /\ pc' = [pc EXCEPT ![r] = Terminal(result, raised)]
        /\ resp' = [resp EXCEPT ![r] = IF raised THEN NoResponse ELSE result]
        /\ fs' = Cleanup(files, p, rmOk)

\* POST /image-video arrives and generate_video runs up to `await image.read()`
\* (lines 52-63; fastapi_server.py 53-60). Requests are numbered in arrival order.
Receive(r) ==
    /\ pc[r] = "idle"
    /\ \A q \in Requests : q < r => pc[q] # "idle"
    /\ loop = {}
    /\ \E fn \in FileNames, openOk \in BOOLEAN :
        \* the parent directory temp_files/<uuid>_... of a name holding "/" does not exist
        /\ HasSlash(fn) => ~openOk
        /\ filename' = [filename EXCEPT ![r] = fn]
        /\ uid' = [uid EXCEPT ![r] = uuid4(r, 1)]
        /\ out_uid' = [out_uid EXCEPT ![r] = IF variant = "ffmpeg" THEN uuid4(r, 2) ELSE <<>>]
        /\ IF openOk
           THEN /\ fs' = OpenForWrite(fs, input_image_path(uuid4(r, 1), fn))
                /\ complete' = complete \ {input_image_path(uuid4(r, 1), fn)}
                /\ pc' = [pc EXCEPT ![r] = "reading"]
                /\ UNCHANGED resp
           ELSE /\ Finish(r, input_image_path(uuid4(r, 1), fn),
                          ErrorResponse("OSError: open"), fs, TRUE)
                /\ UNCHANGED complete
    /\ UNCHANGED <<variant, invoked, exit_status, loop, healthPending, healthResps, dl>>

\* image.read() completes; the payload is written and the file closed; the
\* command is built and subprocess.run starts, blocking the event loop's thread
\* (lines 63-73; fastapi_server.py 60-68).
SaveImage(r) ==
    /\ pc[r] = "reading"
    /\ loop = {}
    /\ \E saved \in BOOLEAN, rmOk \in BOOLEAN :
        IF AfterSave(saved) = "processing"
        THEN /\ complete' = IF saved THEN complete \cup {path(r)} ELSE complete
             /\ pc' = [pc EXCEPT ![r] = "processing"]
             /\ invoked' = [invoked EXCEPT ![r] = @ + 1]
             /\ loop' = {r}
             /\ UNCHANGED <<fs, resp>>
        ELSE /\ Finish(r, path(r), ErrorResponse("OSError: write"), fs, rmOk)
             /\ UNCHANGED <<complete, invoked, loop>>
    /\ UNCHANGED <<variant, filename, uid, out_uid, exit_status, healthPending, healthResps, dl>>

\* the external process, while subprocess.run waits for it, writes its output file
ProcessWrites(r) ==
    /\ pc[r] = "processing"
    /\ ProcessOutputPath(variant, uid[r], out_uid[r], filename[r]) \notin fs
    /\ fs' = fs \cup {ProcessOutputPath(variant, uid[r], out_uid[r], filename[r])}
    /\ UNCHANGED <<variant, pc, filename, uid, out_uid, invoked, exit_status, resp,
                   complete, loop, healthPending, healthResps, dl>>

\* subprocess.run returns; the handler builds its response and cleans up
\* (lines 73-93; fastapi_server.py 68-86).
ProcessReturn(r) ==
    /\ pc[r] = "processing"
    /\ loop = {r}
    /\ \E code \in ExitCodes, rmOk \in BOOLEAN :
        LET result == IF SubprocessRaises(code)
                      THEN ErrorResponse("CalledProcessError")
                      ELSE FileResponse(output_video_path(variant, uid[r], out_uid[r], filename[r]))
        IN  /\ exit_status' = [exit_status EXCEPT ![r] = <<code>>]
            /\ Finish(r, path(r), result, fs, rmOk)
    /\ loop' = {}
    /\ UNCHANGED <<variant, filename, uid, out_uid, invoked, complete, healthPending, healthResps, dl>>

\* a GET /health request reaches the server's socket
HealthRequest ==
    /\ healthPending + Len(healthResps) < MaxHealth
    /\ healthPending' = healthPending + 1
    /\ UNCHANGED <<variant, pc, filename, uid, out_uid, invoked, exit_status, resp,
                   fs, complete, loop, healthResps, dl>>

\* the event loop runs health_check for a pending request (lines 30-32)
health_check ==
    /\ healthPending > 0
    /\ loop = {}
    /\ healthPending' = healthPending - 1
    /\ healthResps' = Append(healthResps, [code |-> 200, status |-> "ok"])
    /\ UNCHANGED <<variant, pc, filename, uid, out_uid, invoked, exit_status, resp,
                   fs, complete, loop, dl>>

----------------------------------------------------------------------------
(* scripts/download.py: download_from_blob_storage *)

BlobNames == SeqsUpTo(MaxPathLen) \ {<<>>}

\* local_file_path: <<>> is None, <<p>> is the path p
LocalPaths == {<<>>} \cup {<<p>> : p \in SeqsUpTo(MaxPathLen)}

\* os.makedirs(d, exist_ok=True) raises FileNotFoundError on the empty path
MakedirsRaises(d) == d = <<>>

\* open(p, "wb") raises when p is empty or names a directory
OpenRaises(p) == basename(p) \in {<<>>, <<".">>, <<".", ".">>}

\* lines 35-36: if local_file_path is None: local_file_path = os.path.basename(blob_name)
local_file_path(blob_name, local) == IF local = <<>> THEN basename(blob_name) ELSE local[1]

\* lines 24-48: the call's outcome and the local files it leaves behind
download_from_blob_storage(blob_name, local, blob_exists) ==
    LET lfp == local_file_path(blob_name, local)
        failed == <<"Failed to download file from Azure Blob Storage">>
    IN  IF MakedirsRaises(dirname(lfp))
        THEN [status |-> "raised", value |-> failed, files |-> {}]
        ELSE IF OpenRaises(lfp)
        THEN [status |-> "raised", value |-> failed, files |-> {}]
        ELSE IF ~blob_exists
        THEN [status |-> "raised", value |-> failed, files |-> {lfp}]
        ELSE [status |-> "returned", value |-> lfp, files |-> {lfp}]

DownloadInit ==
    dl = [pc |-> "idle", blob_name |-> <<>>, local |-> <<>>, blob_exists |-> FALSE,
          status |-> "none", value |-> <<>>, files |-> {}]

\* a caller invokes download_from_blob_storage
DownloadCall ==
    /\ dl.pc = "idle"
    /\ \E b \in BlobNames, l \in LocalPaths, e \in BOOLEAN :
        dl' = [dl EXCEPT !.pc = "called", !.blob_name = b, !.local = l, !.blob_exists = e]
    /\ UNCHANGED serverVars

\* the call runs to its return or raise
DownloadRun ==
    /\ dl.pc = "called"
    /\ LET res == download_from_blob_storage(dl.blob_name, dl.local, dl.blob_exists)
       IN  dl' = [dl EXCEPT !.pc = "done", !.status = res.status, !.value = res.value,
                            !.files = res.files]
    /\ UNCHANGED serverVars

----------------------------------------------------------------------------
(* Specifications *)

Init == ServerInit /\ DownloadInit

Next ==
    \/ \E r \in Requests : Receive(r)
    \/ \E r \in Requests : SaveImage(r)
    \/ \E r \in Requests : ProcessWrites(r)
    \/ \E r \in Requests : ProcessReturn(r)
    \/ HealthRequest
    \/ health_check

Spec == Init /\ [][Next]_vars

NextDownload == DownloadCall \/ DownloadRun

SpecDownload == Init /\ [][NextDownload]_vars

----------------------------------------------------------------------------
(* Properties *)

Terminals == {"responded", "error-reported", "escaped"}

Started(r) == pc[r] # "idle"

OutputPathOf(r) == output_video_path(variant, uid[r], out_uid[r], filename[r])

WrittenPathOf(r) == ProcessOutputPath(variant, uid[r], out_uid[r], filename[r])

\* C1: once generate_video has returned its response (a video or an error
\* payload), whichever of its steps failed, the request's temporary input file
\* temp_files/<uuid>_<filename> does not exist on disk.
C1_InputGoneAfterResponse ==
    \A r \in Requests :
        pc[r] \in {"responded", "error-reported"} => path(r) \notin fs

\* C1 witness: one request answered with a video and one answered with the
\* error of a failed subprocess, both after their input file had been written.
C1_Witness ==
    \E r, q \in Requests :
        /\ pc[r] = "responded" /\ invoked[r] = 1
        /\ pc[q] = "error-reported" /\ exit_status[q] = <<1>>

\* C2: when the subprocess has exited with status zero and no file exists at
\* the expected output path, the request does not end as a success: no video
\* response is returned.
C2_MissingOutputIsFailure ==
    \A r \in Requests :
        (pc[r] \in Terminals /\ exit_status[r] = <<0>> /\ OutputPathOf(r) \notin fs)
            => (pc[r] # "responded" /\ resp[r].kind # "video")

\* C3: when the subprocess has exited non-zero, no video is returned, the
\* response the handler returns is the error payload carrying the reason, and
\* the subprocess was run exactly once for the request.
C3_NonZeroExitIsError ==
    \A r \in Requests :
        (exit_status[r] # <<>> /\ exit_status[r][1] # 0)
            => /\ resp[r].kind # "video"
               /\ pc[r] # "responded"
               /\ pc[r] = "error-reported" => resp[r] = ErrorResponse("CalledProcessError")
               /\ invoked[r] = 1

\* C3 witness: a request whose subprocess exited with status 1 has been
\* answered with the error payload.
C3_Witness ==
    \E r \in Requests :
        /\ exit_status[r] = <<1>>
        /\ pc[r] = "error-reported"
        /\ resp[r] = ErrorResponse("CalledProcessError")

\* C4: while a generation request is in the processing state, a GET /health
\* that has been received can be answered at once, without waiting for the
\* subprocess to return.
C4_HealthAnsweredWhileProcessing ==
    ((\E r \in Requests : pc[r] = "processing") /\ healthPending > 0)
        => ENABLED health_check

\* C5: the temporary input paths of any two requests are distinct, whatever
\* their uploaded filenames, so a file one request opens, writes or removes is
\* never the input file of another request.
C5_InputPathsDistinct ==
    \A r, q \in Requests :
        (r # q /\ Started(r) /\ Started(q)) => path(r) # path(q)

\* C5 witness: two requests in flight at once, uploaded under the same filename.
C5_Witness ==
    \E r, q \in Requests :
        /\ r # q
        /\ pc[r] = "reading" /\ pc[q] \in {"reading", "processing"}
        /\ filename[r] = filename[q]

\* C6: no failure escapes generate_video: every request that has left the
\* handler is in one of the terminal states responded or error-reported, with
\* a user-visible response.
C6_NoFailureEscapes ==
    \A r \in Requests :
        /\ pc[r] # "escaped"
        /\ pc[r] = "responded" => resp[r].kind = "video"
        /\ pc[r] = "error-reported" => resp[r].kind = "error"

\* C7: in the inference-script variant, the output path returned on success is
\* animations/<stem>--video.mp4, <stem> being the stored input file name
\* <uuid>_<filename> with its final extension removed.
C7_OutputPathUsesStem ==
    \A r \in Requests :
        (variant = "inference" /\ pc[r] = "responded")
            => resp[r].body = <<"animations", "/">> \o prefix(basename(path(r)))
                                  \o <<"--video", ".", "mp4">>

\* C8: download_from_blob_storage called with local_file_path = None, for a
\* blob that exists and whose base name names a file, saves the blob to the
\* local file named by the base name of blob_name and returns that path.
C8_DownloadDefaultsToBasename ==
    (/\ dl.pc = "done"
     /\ dl.local = <<>>
     /\ dl.blob_exists
     /\ ~OpenRaises(basename(dl.blob_name)))
        => /\ dl.status = "returned"
           /\ dl.value = basename(dl.blob_name)
           /\ basename(dl.blob_name) \in dl.files

\* C9: the subprocess is run for a request only after the request's payload has
\* been written in full to its input path; a request whose input file could not
\* be opened or written never runs the subprocess and never ends as a success.
C9_InvokedOnlyAfterInputWritten ==
    \A r \in Requests :
        /\ invoked[r] > 0 => path(r) \in complete
        /\ (Started(r) /\ path(r) \notin complete /\ pc[r] # "reading")
               => (invoked[r] = 0 /\ pc[r] \in {"error-reported", "escaped"})

\* C9 witness: a request whose upload could not be written has been answered
\* with an error, its subprocess never run.
C9_Witness ==
    \E r \in Requests :
        /\ pc[r] = "error-reported"
        /\ resp[r] = ErrorResponse("OSError: write")
        /\ invoked[r] = 0

\* C10: a request in the processing state has its input file on disk, written
\* in full, whatever other requests have done in the meantime.
C10_InputPresentWhileProcessing ==
    \A r \in Requests :
        pc[r] = "processing" => (path(r) \in fs /\ path(r) \in complete)

\* C10 witness: a request is processing after another request, received while
\* the first was reading its upload, has run to its end and cleaned up.
C10_Witness ==
    \E r, q \in Requests :
        /\ r < q
        /\ pc[r] = "processing"
        /\ pc[q] \in {"responded", "error-reported"} /\ invoked[q] = 1

\* C11: a step of a request's handler removes no file other than that
\* request's own input file, and removes it only as the handler ends, which it
\* does once: the video the external process wrote for the request, the path
\* the handler expects it at, and the files of other requests stay on disk
\* through every step, whichever way the handler ends.
C11_DeletesOnlyOwnInputOnce ==
    [][ /\ \A f \in fs \ fs' :
              \E r \in Requests :
                  /\ f = path(r)
                  /\ pc[r] \notin Terminals /\ pc'[r] \in Terminals
                  /\ \A q \in Requests \ {r} : pc'[q] = pc[q]
        /\ \A r \in Requests :
              /\ OutputPathOf(r) \in fs => OutputPathOf(r) \in fs'
              /\ WrittenPathOf(r) \in fs => WrittenPathOf(r) \in fs'
              /\ pc[r] \in Terminals => pc'[r] = pc[r]
      ]_vars

\* C11 witness: one request has been answered with its video and another with
\* the error of a failed subprocess that had written a video; both input files
\* are removed and both videos are on disk.
C11_Witness ==
    \E r, q \in Requests :
        /\ pc[r] = "responded" /\ path(r) \notin fs /\ OutputPathOf(r) \in fs
        /\ pc[q] = "error-reported" /\ exit_status[q] = <<1>>
        /\ path(q) \notin fs /\ WrittenPathOf(q) \in fs

====
